---- MODULE Spec2Model ----
(***************************************************************************)
(* A model of the figure compositor of examples/paper.py (ArcanaPaper):    *)
(* the numeric helpers _crop and _pad_to_size, the row renderer            *)
(* _plot_mid_slices, and the two batch loops _plot_slice_panel and         *)
(* figure12 that iterate subjects x visits and save or show each figure.   *)
(*                                                                         *)
(* An n-dimensional numpy array is a record [shape, data]: shape is the    *)
(* sequence of axis lengths and data maps every 0-based index tuple to     *)
(* its element.  A Python string is a sequence of one-character strings.   *)
(* A call that can raise returns [status, array]; status "ok" is a normal  *)
(* return and any other status is the exception that was raised.           *)
(***************************************************************************)
EXTENDS Integers, Sequences, FiniteSets, TLC

\* Largest axis length of an input volume or 2-D array.
MaxDim == 3
\* Largest border given to crop.
MaxBorder == 1
\* Largest target size given to pad_to_size.
MaxSize == 4

Max(a, b) == IF a >= b THEN a ELSE b
Min(a, b) == IF a <= b THEN a ELSE b
SetMax(S) == CHOOSE m \in S : \A x \in S : x <= m
SetMin(S) == CHOOSE m \in S : \A x \in S : m <= x
\* Python's // on integers (floor division).
FloorDiv(a, b) == a \div b

(***************************************************************************)
(* numpy arrays                                                            *)
(***************************************************************************)
SeqMax(s) == IF Len(s) = 0 THEN 0 ELSE SetMax({s[k] : k \in 1..Len(s)})
\* The index tuples of an array of this shape (0-based on every axis).
Idx(shape) ==
  {t \in [1..Len(shape) -> 0..(SeqMax(shape) - 1)] :
      \A k \in 1..Len(shape) : t[k] < shape[k]}
MkArray(shape, nzset) ==
  [shape |-> shape, data |-> [t \in Idx(shape) |-> IF t \in nzset THEN 1 ELSE 0]]
\* The value a raising call leaves: no array at all.
NoArray == [shape |-> <<>>, data |-> <<>>]
Ok(a) == [status |-> "ok", array |-> a]
Raise(e) == [status |-> e, array |-> NoArray]
Ndim(array) == Len(array.shape)

\* np.argwhere(array): the index tuples of the nonzero elements.
Argwhere(array) == {t \in DOMAIN array.data : array.data[t] # 0}

\* array[slice(start, stop), ...] for 0 <= start and 0 <= stop: Python clips
\* both ends to the axis length and an empty range has length 0.
SliceLen(sl, n) == Max(Min(sl.stop, n) - Min(sl.start, n), 0)
Take(array, slices) ==
  LET shape == [i \in 1..Ndim(array) |-> SliceLen(slices[i], array.shape[i])]
  IN [shape |-> shape,
      data |-> [t \in Idx(shape) |->
                  array.data[[i \in 1..Ndim(array) |-> t[i] + slices[i].start]]]]

(***************************************************************************)
(* ArcanaPaper._crop                                                       *)
(***************************************************************************)
\* The tuple of slices _crop builds from nz.min(axis=0), nz.max(axis=0).
CropSlices(array, border) ==
  LET nz == Argwhere(array)
  IN [i \in 1..Ndim(array) |->
        LET a == SetMin({t[i] : t \in nz})
            b == SetMax({t[i] : t \in nz})
        IN [start |-> Max(a - border, 0),
            stop |-> Min(b + border, array.shape[i])]]

\* A variant that treats an empty argwhere as the box [0, 0) on every axis.
CropMutEmpty(array, border) ==
  IF Argwhere(array) = {}
  THEN Ok(Take(array, [i \in 1..Ndim(array) |-> [start |-> 0, stop |-> 0]]))
  ELSE Ok(Take(array, CropSlices(array, border)))

\* nz.min(axis=0) of an empty (0, ndim) argwhere raises ValueError (a
\* reduction of a zero-size array that has no identity).
Crop(array, border) ==
  IF Argwhere(array) = {}
  THEN Raise("ValueError")
  ELSE Ok(Take(array, CropSlices(array, border)))

(***************************************************************************)
(* ArcanaPaper._pad_to_size                                                *)
(***************************************************************************)
\* pad_before and pad_after of the first two axes, (0, 0) for the others.
PadBeforeMutCeil(array, size) ==
  [i \in 1..Ndim(array) |->
     IF i <= 2 THEN FloorDiv(size[i] - array.shape[i] + 1, 2) ELSE 0]

PadBefore(array, size) ==
  [i \in 1..Ndim(array) |->
     IF i <= 2 THEN FloorDiv(size[i] - array.shape[i], 2) ELSE 0]

PadAfterMutNoBefore(array, size) ==
  [i \in 1..Ndim(array) |->
     IF i <= 2 THEN size[i] - array.shape[i] ELSE 0]

PadAfter(array, size) ==
  [i \in 1..Ndim(array) |->
     IF i <= 2 THEN size[i] - array.shape[i] - PadBefore(array, size)[i] ELSE 0]

\* A variant that puts all the padding after the content.
NpPadMutCorner(array, before, after) ==
  LET shape == [i \in 1..Ndim(array) |-> before[i] + array.shape[i] + after[i]]
      Inside(t) == \A i \in 1..Ndim(array) : t[i] < array.shape[i]
  IN [shape |-> shape,
      data |-> [t \in Idx(shape) |-> IF Inside(t) THEN array.data[t] ELSE 0]]

\* np.pad(array, padding, 'constant'): zeros before and after on each axis.
NpPad(array, before, after) ==
  LET shape == [i \in 1..Ndim(array) |-> before[i] + array.shape[i] + after[i]]
      Inside(t) == \A i \in 1..Ndim(array) :
                      before[i] <= t[i] /\ t[i] < before[i] + array.shape[i]
  IN [shape |-> shape,
      data |-> [t \in Idx(shape) |->
                  IF Inside(t)
                  THEN array.data[[i \in 1..Ndim(array) |-> t[i] - before[i]]]
                  ELSE 0]]

\* A variant that takes a negative pad width as no padding on that side.
PadToSizeMutClamp(array, size) ==
  IF Ndim(array) < 2 THEN Raise("IndexError")
  ELSE Ok(NpPad(array,
                [i \in 1..Ndim(array) |-> Max(PadBefore(array, size)[i], 0)],
                [i \in 1..Ndim(array) |-> Max(PadAfter(array, size)[i], 0)]))

\* array.shape[i] for i in range(2) raises IndexError on an array of fewer
\* than two axes; np.pad raises ValueError on a negative pad width.
PadToSize(array, size) ==
  IF Ndim(array) < 2 THEN Raise("IndexError")
  ELSE LET before == PadBefore(array, size)
           after == PadAfter(array, size)
       IN IF \E i \in 1..Ndim(array) : before[i] < 0 \/ after[i] < 0
          THEN Raise("ValueError")
          ELSE Ok(NpPad(array, before, after))

(***************************************************************************)
(* ArcanaPaper._plot_mid_slices: the numeric part                          *)
(***************************************************************************)
\* An element that np.isnan reports: not a number.
NaN == -1
\* array[np.isnan(array)] = 0.0
ZeroNan(array) ==
  [shape |-> array.shape,
   data |-> [t \in DOMAIN array.data |->
               IF array.data[t] = NaN THEN 0 ELSE array.data[t]]]

\* mid = np.array(array.shape, dtype=int) // 2
MidIndex(array) == [i \in 1..Ndim(array) |-> FloorDiv(array.shape[i], 2)]

\* The two axes of a 3-D array other than the fixed one, in increasing order.
InPlane(fixed) == IF fixed = 3 THEN <<1, 2>> ELSE IF fixed = 2 THEN <<1, 3>> ELSE <<2, 3>>

\* The length of a[-1:0:-1] on an axis of length n: indices n-1 down to 1.
RevLen(n) == Max(n - 1, 0)

\* array[-1:0:-1, -1:0:-1, mid[2]] and its two siblings: the integer index
\* mid[fixed] on the fixed axis (IndexError when that axis is empty), the
\* reversed slice -1:0:-1 on the two others.
RevMidSlice(array, fixed) ==
  LET p == InPlane(fixed)[1]
      q == InPlane(fixed)[2]
      m == MidIndex(array)[fixed]
      shape == <<RevLen(array.shape[p]), RevLen(array.shape[q])>>
  IN IF m >= array.shape[fixed] THEN Raise("IndexError")
     ELSE Ok([shape |-> shape,
              data |-> [t \in Idx(shape) |->
                 array.data[[i \in 1..3 |->
                    IF i = fixed THEN m
                    ELSE IF i = p THEN array.shape[p] - 1 - t[1]
                    ELSE array.shape[q] - 1 - t[2]]]]])

\* np.squeeze: every axis of length 1 is removed.
Squeeze(array) ==
  LET keep(n) == n # 1
      shape == SelectSeq(array.shape, keep)
      rank(i) == Cardinality({j \in 1..i : array.shape[j] # 1})
  IN [shape |-> shape,
      data |-> [t \in Idx(shape) |->
                  array.data[[i \in 1..Ndim(array) |->
                                IF array.shape[i] = 1 THEN 0 ELSE t[rank(i)]]]]]

\* ndarray.T: the axes reversed.
Transpose(array) ==
  LET n == Ndim(array)
      shape == [i \in 1..n |-> array.shape[n + 1 - i]]
  IN [shape |-> shape,
      data |-> [t \in Idx(shape) |-> array.data[[i \in 1..n |-> t[n + 1 - i]]]]]

\* np.squeeze(array[..., mid, ...]).T, the first argument of plot_slice.
MidSlice(array, fixed) ==
  LET r == RevMidSlice(array, fixed)
  IN IF r.status = "ok" THEN Ok(Transpose(Squeeze(r.array))) ELSE r

\* The axis fixed at its mid index by the k-th plot_slice call (k = 0, 1, 2),
\* as a 1-based axis number: mid[2], mid[1], mid[0].
FixedAxis(k) == 3 - k

RECURSIVE Gcd(_, _)
Gcd(a, b) == IF b = 0 THEN a ELSE Gcd(b, a % b)
\* The quotient a / b of two positive numbers, in lowest terms.
Ratio(a, b) == <<a \div Gcd(a, b), b \div Gcd(a, b)>>

\* The aspect argument of the k-th plot_slice call: vox_sizes[0] /
\* vox_sizes[1], vox_sizes[0] / vox_sizes[2], vox_sizes[1] / vox_sizes[2]
\* (vox_sizes is 0-based in the code, 1-based here).
AspectMutInverse(vox_sizes, k) ==
  IF k = 0 THEN Ratio(vox_sizes[2], vox_sizes[1])
  ELSE IF k = 1 THEN Ratio(vox_sizes[3], vox_sizes[1])
  ELSE Ratio(vox_sizes[3], vox_sizes[2])

Aspect(vox_sizes, k) ==
  IF k = 0 THEN Ratio(vox_sizes[1], vox_sizes[2])
  ELSE IF k = 1 THEN Ratio(vox_sizes[1], vox_sizes[3])
  ELSE Ratio(vox_sizes[2], vox_sizes[3])

\* header['pixdim'][1:4]: elements 1, 2, 3 of the 0-based pixdim.
VoxSizes(pixdim) == SubSeq(pixdim, 2, 4)

\* np.percentile(array, q) of an array of zeros and ones, in hundredths:
\* linear interpolation between the two order statistics around position
\* q/100 * (N - 1) of the sorted values.
Percentile(array, q) ==
  LET N == Cardinality(DOMAIN array.data)
      zeros == Cardinality({t \in DOMAIN array.data : array.data[t] = 0})
      sorted(j) == IF j < zeros THEN 0 ELSE 1
      pos == q * (N - 1)
      f == pos \div 100
      frac == pos % 100
  IN IF frac = 0 THEN 100 * sorted(f)
     ELSE 100 * sorted(f) + frac * (sorted(f + 1) - sorted(f))

(***************************************************************************)
(* The inputs of the numeric helpers                                       *)
(***************************************************************************)
\* Nonzero sets of at most two elements: two opposite corners realise every
\* per-axis pair (smallest, largest) of nonzero indices.
Sparse(S) == {{}} \cup {{a, b} : a \in S, b \in S}
VolumeShapes == [1..3 -> 1..MaxDim]
Volumes == UNION {{MkArray(s, nz) : nz \in Sparse(Idx(s))} : s \in VolumeShapes}
ImageShapes == [1..2 -> 0..MaxDim]
Images == UNION {{MkArray(s, nz) : nz \in Sparse(Idx(s))} : s \in ImageShapes}
Sizes == [1..2 -> 0..MaxSize]

VARIABLES
  h_pc,      \* position of the helper call under test
  h_array,   \* the array argument
  h_arg,     \* the second argument: crop's border, pad_to_size's size
  h_ret,     \* what the call returned or raised
  h_ret2     \* what pad_to_size returned when applied to its own result

hvars == <<h_pc, h_array, h_arg, h_ret, h_ret2>>

HIdle ==
  /\ h_pc = "idle" /\ h_array = NoArray /\ h_arg = 0
  /\ h_ret = Raise("none") /\ h_ret2 = Raise("none")

CropInputs ==
  /\ h_pc = "crop"
  /\ h_array \in Volumes
  /\ h_arg \in 0..MaxBorder
  /\ h_ret = Raise("none") /\ h_ret2 = Raise("none")

CropCall ==
  /\ h_pc = "crop"
  /\ h_ret' = Crop(h_array, h_arg)
  /\ h_pc' = "done"
  /\ UNCHANGED <<h_array, h_arg, h_ret2>>

PadInputs ==
  /\ h_pc = "pad"
  /\ h_array \in Images
  /\ h_arg \in Sizes
  /\ h_ret = Raise("none") /\ h_ret2 = Raise("none")

PadCall ==
  /\ h_pc = "pad"
  /\ h_ret' = PadToSize(h_array, h_arg)
  /\ h_pc' = IF h_ret'.status = "ok" THEN "pad_again" ELSE "done"
  /\ UNCHANGED <<h_array, h_arg, h_ret2>>

PadAgain ==
  /\ h_pc = "pad_again"
  /\ h_ret2' = PadToSize(h_ret.array, h_arg)
  /\ h_pc' = "done"
  /\ UNCHANGED <<h_array, h_arg, h_ret>>

(***************************************************************************)
(* Strings, paths and options                                              *)
(***************************************************************************)
\* os.path.splitext (posixpath): the extension starts at the last dot of the
\* last path component, unless that component has only leading dots before it.
RFind(p, c) == SetMax({0} \cup {n \in 1..Len(p) : p[n] = c})
Splitext(p) ==
  LET sepIndex == RFind(p, "/")
      dotIndex == RFind(p, ".")
  IN IF dotIndex > sepIndex
        /\ \E n \in (sepIndex + 1)..(dotIndex - 1) : p[n] # "."
     THEN [base |-> SubSeq(p, 1, dotIndex - 1), ext |-> SubSeq(p, dotIndex, Len(p))]
     ELSE [base |-> p, ext |-> <<>>]

\* The optional save_path argument: None, or a string.
NoPath == [none |-> TRUE, str |-> <<>>]
SomePath(str) == [none |-> FALSE, str |-> str]

\* sess_save_path of one session: base, '-sub{}' when the batch has more than
\* one subject, '-vis{}' when it has more than one visit, then ext.
SessSavePathMutVisitFirst(path, subj_id, visit_id, subjects, visits) ==
  LET sp == Splitext(path)
      vis == IF Len(visits) > 1 THEN <<"-", "v", "i", "s">> \o visit_id ELSE <<>>
      sub == IF Len(subjects) > 1 THEN <<"-", "s", "u", "b">> \o subj_id ELSE <<>>
  IN sp.base \o vis \o sub \o sp.ext

SessSavePathMutNoVisit(path, subj_id, visit_id, subjects, visits) ==
  LET sp == Splitext(path)
      base1 == IF Len(subjects) > 1
               THEN sp.base \o <<"-", "s", "u", "b">> \o subj_id ELSE sp.base
  IN base1 \o sp.ext

SessSavePath(path, subj_id, visit_id, subjects, visits) ==
  LET sp == Splitext(path)
      base1 == IF Len(subjects) > 1
               THEN sp.base \o <<"-", "s", "u", "b">> \o subj_id ELSE sp.base
      base2 == IF Len(visits) > 1
               THEN base1 \o <<"-", "v", "i", "s">> \o visit_id ELSE base1
  IN base2 \o sp.ext

\* An optional number: None, a number in hundredths, or the float nan.
NoneNum == [kind |-> "None", val |-> 0]
Num(v) == [kind |-> "num", val |-> v]
NanNum == [kind |-> "nan", val |-> 0]

\* The keyword defaults of _plot_mid_slices.
DefaultPadding == 1
DefaultVmaxPercentile == 98
\* A dict with no key, and a defaultdict(dict) lookup.
EmptyDict == [x \in {} |-> 0]
Lookup(plot_args, name) ==
  IF name \in DOMAIN plot_args THEN plot_args[name] ELSE EmptyDict
Opt(kwargs, key, default) == IF key \in DOMAIN kwargs THEN kwargs[key] ELSE default

\* The calls of the three figure methods.
Figure10(plot_args) ==
  [fn |-> "figure10", data_names |-> <<"swi", "qsm", "vein_atlas", "ven_mask">>,
   plot_args |-> plot_args, padding |-> 0, mrtrix_path |-> FALSE]
Figure11 ==
  [fn |-> "figure11", data_names |-> <<"dmri_fa", "dmri_adc">>,
   plot_args |-> [x \in {"fa"} |-> [vmax |-> Num(100)]],
   padding |-> 0, mrtrix_path |-> FALSE]
Figure12(padding, mrtrix_path) ==
  [fn |-> "figure12", data_names |-> <<>>, plot_args |-> EmptyDict,
   padding |-> padding, mrtrix_path |-> mrtrix_path]

(***************************************************************************)
(* The surroundings: the data layer and the external viewer                *)
(***************************************************************************)
\* Volumes: all nonzero, all zero, a single nonzero voxel at the origin or
\* inside, two voxels at opposite corners (the crop keeps everything and the
\* 98th percentile lies below the maximum), two voxels whose box leaves part
\* of the first axis out, one NaN among ones; a cube, a box with three
\* different axis lengths and a box two voxels thick.
Cube == <<MaxDim, MaxDim, MaxDim>>
Slab == <<MaxDim + 2, MaxDim + 1, MaxDim>>
Thin == <<2, MaxDim, MaxDim>>
Full(shape) == MkArray(shape, Idx(shape))
WithNaN(a, t) == [a EXCEPT !.data[t] = NaN]
PanelVolumes ==
  {Full(Cube), MkArray(Slab, {<<0, 0, 0>>, <<MaxDim + 1, MaxDim, MaxDim - 1>>}),
   Full(Thin), MkArray(Cube, {}),
   MkArray(Cube, {<<0, 0, 0>>}), MkArray(Cube, {<<1, 1, 1>>}),
   MkArray(Slab, {<<0, 0, 0>>, <<MaxDim - 1, MaxDim, MaxDim - 1>>}),
   WithNaN(Full(Cube), <<0, 0, 0>>)}
\* pixdim[0] is qfac, pixdim[1:4] the voxel sizes.
PanelRepo ==
  {[array |-> v, pixdim |-> <<1, 1, 1, 2>>] : v \in PanelVolumes}
    \cup {[array |-> Full(Cube), pixdim |-> <<1, 2, 3, 5>>]}
\* The batch environment has one volume that is nonzero everywhere and one
\* that is zero everywhere, both 3 x 3 x 3.
BatchRepo ==
  {[array |-> Full(<<3, 3, 3>>), pixdim |-> <<1, 1, 1, 2>>],
   [array |-> MkArray(<<3, 3, 3>>, {}), pixdim |-> <<1, 1, 1, 2>>]}

\* Screenshots (height, width, RGB) and the outcomes of an mrview run.
ShotShape == <<MaxDim, MaxDim, 3>>
Shots ==
  {Full(ShotShape), MkArray(ShotShape, {}),
   MkArray(ShotShape, {<<1, 1, 0>>, <<1, 1, 2>>})}
PanelTool ==
  {[exit |-> e, writes |-> TRUE, img |-> i] : e \in {0, 1}, i \in Shots}
    \cup {[exit |-> e, writes |-> FALSE, img |-> NoArray] : e \in {0, 1}}
\* In the batch environment every run exits with 0 and writes a 3 x 3 RGB
\* screenshot that is nonzero everywhere.
BatchTool == {[exit |-> 0, writes |-> TRUE, img |-> Full(<<3, 3, 3>>)]}

\* The data layer and the viewer of each environment.
Repo(e) == IF e = "panel" THEN PanelRepo ELSE BatchRepo
Tool(e) == IF e = "panel" THEN PanelTool ELSE BatchTool

(***************************************************************************)
(* State                                                                   *)
(***************************************************************************)
VARIABLES
  call,         \* the figure method called, with its arguments
  subject_ids,  \* self.subject_ids
  visit_ids,    \* self.visit_ids
  save_path,    \* the save_path argument
  env,          \* what surrounds the run: which filesets the data layer can
                \* return and which outcomes an mrview run can have
  pc,           \* position in the method
  si, vi,       \* positions of the two for loops (1-based)
  fig,          \* the current matplotlib figure
  row,          \* i of enumerate(data_names)
  k,            \* the plot_slice call, or i of range(3) in figure12
  array,        \* the array get_array returned
  vox,          \* vox_sizes
  cropped,      \* array after _crop, inside _plot_mid_slices
  padded_size,  \* padded_size
  vmax,         \* vmax, inside _plot_mid_slices
  imgs,         \* imgs of figure12
  tmpdir,       \* tmpdir of figure12 (index into tmpdirs)
  tmpdirs,      \* the directories mkdtemp created, with their screenshot
  rc,           \* exit statuses of the mrview runs of this session
  cwds,         \* the working directory of every mrview run so far
  files,        \* the files savefig wrote: path -> figure
  shown,        \* the sessions whose figure plt.show displayed
  error         \* the exception that ended the method, or "none"

bvars == <<call, subject_ids, visit_ids, save_path, env, pc, si, vi, fig,
           row, k, array, vox, cropped, padded_size, vmax, imgs, tmpdir,
           tmpdirs, rc, cwds, files, shown, error>>
vars == <<hvars, bvars>>

NoFigure == [n_rows |-> 0, n_cols |-> 0, axes |-> <<>>]
\* plt.figure with GridSpec(n_rows, 3): a new, empty current figure.
NewFigure(n_rows) == [n_rows |-> n_rows, n_cols |-> 3, axes |-> <<>>]
NoShot == [present |-> FALSE, img |-> NoArray, by |-> <<0, 0, 0>>]

BIdle ==
  /\ call = Figure11 /\ subject_ids = <<>> /\ visit_ids = <<>>
  /\ save_path = NoPath /\ env = "none"
  /\ pc = "idle" /\ si = 1 /\ vi = 1 /\ fig = NoFigure /\ row = 0 /\ k = 0
  /\ array = NoArray /\ vox = <<>> /\ cropped = NoArray /\ padded_size = 0
  /\ vmax = NoneNum /\ imgs = <<>> /\ tmpdir = 0 /\ tmpdirs = <<>> /\ rc = <<>>
  /\ cwds = <<>>
  /\ files = EmptyDict /\ shown = <<>> /\ error = "none"

(***************************************************************************)
(* _plot_slice_panel and _plot_mid_slices                                  *)
(***************************************************************************)
Fail(e) == pc' = "failed" /\ error' = e

\* The next (subject, visit) of the two nested for loops, or the end.
NextSession ==
  IF vi < Len(visit_ids) THEN pc' = "session" /\ vi' = vi + 1 /\ si' = si
  ELSE IF si < Len(subject_ids) THEN pc' = "session" /\ vi' = 1 /\ si' = si + 1
  ELSE pc' = "done" /\ UNCHANGED <<si, vi>>

\* plt.savefig(path): the file at path now holds the current figure.
Savefig(fs, path, content) ==
  [p \in DOMAIN fs \cup {path} |-> IF p = path THEN content ELSE fs[p]]

\* A variant that creates the session's file before the rows are drawn.
BeginSessionMutOpenFile ==
  /\ pc = "session" /\ call.fn # "figure12"
  /\ fig' = NewFigure(Len(call.data_names))
  /\ row' = 0
  /\ pc' = "row"
  /\ files' = IF save_path.none THEN files
              ELSE Savefig(files,
                     SessSavePath(save_path.str, subject_ids[si], visit_ids[vi],
                                  subject_ids, visit_ids),
                     [subject |-> subject_ids[si], visit |-> visit_ids[vi],
                      figure |-> NewFigure(Len(call.data_names))])
  /\ UNCHANGED <<hvars, call, subject_ids, visit_ids, save_path, env, si, vi,
                 k, array, vox, cropped, padded_size, vmax, imgs, tmpdir,
                 tmpdirs, rc, cwds, shown, error>>

\* Lines 174-178: set up the figure of one session.
BeginSession ==
  /\ pc = "session" /\ call.fn # "figure12"
  /\ fig' = NewFigure(Len(call.data_names))
  /\ row' = 0
  /\ pc' = "row"
  /\ UNCHANGED <<hvars, call, subject_ids, visit_ids, save_path, env, si, vi,
                 k, array, vox, cropped, padded_size, vmax, imgs, tmpdir,
                 tmpdirs, rc, cwds, files, shown, error>>

\* Lines 181-186: fetch the array and the voxel sizes of the next row.
FetchRow ==
  /\ pc = "row" /\ row < Len(call.data_names)
  /\ \E fileset \in Repo(env) :
       /\ array' = fileset.array
       /\ vox' = VoxSizes(fileset.pixdim)
  /\ pc' = "mid_slices"
  /\ UNCHANGED <<hvars, call, subject_ids, visit_ids, save_path, env, si, vi,
                 fig, row, k, cropped, padded_size, vmax, imgs, tmpdir,
                 tmpdirs, rc, cwds, files, shown, error>>

\* A variant that takes the percentile of the volume as it was fetched.
VmaxChoicesMutUncropped(kwargs, a) ==
  LET given == Opt(kwargs, "vmax", NoneNum)
      q == Opt(kwargs, "vmax_percentile", DefaultVmaxPercentile)
  IN IF given.kind # "None" THEN {given}
     ELSE IF DOMAIN a.data = {} THEN {NanNum, [kind |-> "IndexError", val |-> 0]}
     ELSE {Num(Percentile(ZeroNan(array), q))}

\* Lines 215-217: the given vmax, or np.percentile of the cropped array;
\* np.percentile of an array without elements: nan, or IndexError, as the
\* numpy version has it.
VmaxChoices(kwargs, a) ==
  LET given == Opt(kwargs, "vmax", NoneNum)
      q == Opt(kwargs, "vmax_percentile", DefaultVmaxPercentile)
  IN IF given.kind # "None" THEN {given}
     ELSE IF DOMAIN a.data = {} THEN {NanNum, [kind |-> "IndexError", val |-> 0]}
     ELSE {Num(Percentile(a, q))}

\* Lines 206-217: the NaN guard (in place), the crop, padded_size and vmax.
CropRow ==
  /\ pc = "mid_slices"
  /\ LET kwargs == Lookup(call.plot_args, call.data_names[row + 1])
         guarded == ZeroNan(array)
         c == Crop(guarded, Opt(kwargs, "padding", DefaultPadding))
     IN /\ array' = guarded
        /\ IF c.status # "ok"
           THEN Fail(c.status) /\ UNCHANGED <<cropped, padded_size, vmax, k>>
           ELSE \E v \in VmaxChoices(kwargs, c.array) :
                  /\ cropped' = c.array
                  /\ padded_size' = SeqMax(c.array.shape)
                  /\ IF v.kind = "IndexError"
                     THEN Fail("IndexError") /\ UNCHANGED <<vmax, k>>
                     ELSE vmax' = v /\ k' = 0 /\ pc' = "slice" /\ error' = error
  /\ UNCHANGED <<hvars, call, subject_ids, visit_ids, save_path, env, si, vi,
                 fig, row, vox, imgs, tmpdir, tmpdirs, rc, cwds, files, shown>>

\* One subplot: fig.add_subplot(grid_spec[index]) and what imshow drew in it.
Axes(index, drawn, image, aspect, lo, hi, fixed, raw) ==
  [index |-> index, drawn |-> drawn, image |-> image, aspect |-> aspect,
   vmin |-> lo, vmax |-> hi, fixed |-> fixed, raw |-> raw]

\* Lines 231-236 with plot_slice (220-229): the k-th of the three slices.
\* The slice and the aspect are evaluated first, then add_subplot, then
\* _pad_to_size, then imshow.
PlotSlice ==
  /\ pc = "slice"
  /\ LET slce == MidSlice(cropped, FixedAxis(k))
         index == row * 3 + k
         aspect == Aspect(vox, k)
         padded == PadToSize(slce.array, <<padded_size, padded_size>>)
     IN IF slce.status # "ok"
        THEN Fail(slce.status) /\ UNCHANGED <<fig, row, k>>
        ELSE IF padded.status # "ok"
        THEN /\ fig' = [fig EXCEPT !.axes = Append(@,
                          Axes(index, FALSE, NoArray, aspect, NoneNum, NoneNum,
                               FixedAxis(k), slce.array.shape))]
             /\ Fail(padded.status) /\ UNCHANGED <<row, k>>
        ELSE /\ fig' = [fig EXCEPT !.axes = Append(@,
                          Axes(index, TRUE, padded.array, aspect, Num(0), vmax,
                               FixedAxis(k), slce.array.shape))]
             /\ IF k < 2 THEN k' = k + 1 /\ row' = row /\ pc' = pc
                ELSE k' = 0 /\ row' = row + 1 /\ pc' = "row"
             /\ error' = error
  /\ UNCHANGED <<hvars, call, subject_ids, visit_ids, save_path, env, si, vi,
                 array, vox, cropped, padded_size, vmax, imgs, tmpdir,
                 tmpdirs, rc, cwds, files, shown>>

\* A variant that shows the figure whether or not it is saved.
SaveOrShowMutBoth ==
  /\ shown' = Append(shown, <<subject_ids[si], visit_ids[vi]>>)
  /\ files' = IF save_path.none THEN files
              ELSE Savefig(files,
                     SessSavePath(save_path.str, subject_ids[si], visit_ids[vi],
                                  subject_ids, visit_ids),
                     [subject |-> subject_ids[si], visit |-> visit_ids[vi],
                      figure |-> fig])

\* Lines 192-201 (and 138-147 of figure12): show the figure, or save it to
\* the session's path.
SaveOrShow ==
  IF save_path.none
  THEN /\ shown' = Append(shown, <<subject_ids[si], visit_ids[vi]>>)
       /\ files' = files
  ELSE /\ files' = Savefig(files,
                     SessSavePath(save_path.str, subject_ids[si], visit_ids[vi],
                                  subject_ids, visit_ids),
                     [subject |-> subject_ids[si], visit |-> visit_ids[vi],
                      figure |-> fig])
       /\ shown' = shown

\* A variant that puts the figure out as soon as its first row is drawn.
OutputMutEarly ==
  /\ pc = "row" /\ row = 1
  /\ SaveOrShow
  /\ NextSession
  /\ UNCHANGED <<hvars, call, subject_ids, visit_ids, save_path, env, fig,
                 row, k, array, vox, cropped, padded_size, vmax, imgs, tmpdir,
                 tmpdirs, rc, cwds, error>>

\* Lines 190-201: after the last row, tight_layout, then show or save.
Output ==
  /\ pc = "row" /\ row = Len(call.data_names)
  /\ SaveOrShow
  /\ NextSession
  /\ UNCHANGED <<hvars, call, subject_ids, visit_ids, save_path, env, fig,
                 row, k, array, vox, cropped, padded_size, vmax, imgs, tmpdir,
                 tmpdirs, rc, cwds, error>>

(***************************************************************************)
(* figure12                                                                *)
(***************************************************************************)
\* Lines 96-120: the paths, tempfile.mkdtemp (a new directory, never seen
\* before), the figure and the empty imgs list.
TracksBegin ==
  /\ pc = "session" /\ call.fn = "figure12"
  /\ tmpdirs' = Append(tmpdirs, NoShot)
  /\ tmpdir' = Len(tmpdirs) + 1
  /\ fig' = NewFigure(1)
  /\ imgs' = <<>>
  /\ rc' = <<>>
  /\ k' = 0
  /\ pc' = "mrview"
  /\ UNCHANGED <<hvars, call, subject_ids, visit_ids, save_path, env, si, vi,
                 row, array, vox, cropped, padded_size, vmax, cwds, files,
                 shown, error>>

\* Lines 122-125: sp.call runs mrview with -plane 2 - k in cwd=tmpdir and
\* waits for it to exit; its return value is dropped.  With mrtrix_path set
\* the command is a single string run without a shell, which POSIX takes
\* for the program's name (FileNotFoundError) and Windows runs.
Mrview ==
  /\ pc = "mrview"
  /\ \/ /\ call.mrtrix_path
        /\ Fail("FileNotFoundError")
        /\ UNCHANGED <<tmpdirs, rc, cwds>>
     \/ \E o \in Tool(env) :
          /\ rc' = Append(rc, o.exit)
          /\ cwds' = Append(cwds, tmpdir)
          /\ tmpdirs' = IF o.writes
                        THEN [tmpdirs EXCEPT ![tmpdir] =
                                [present |-> TRUE, img |-> o.img,
                                 by |-> <<si, vi, k>>]]
                        ELSE tmpdirs
          /\ pc' = "imread"
          /\ error' = error
  /\ UNCHANGED <<hvars, call, subject_ids, visit_ids, save_path, env, si, vi,
                 fig, row, k, array, vox, cropped, padded_size, vmax, imgs,
                 tmpdir, files, shown>>

\* Lines 126-128: read tmpdir/screenshot0000.png and crop it.
Imread ==
  /\ pc = "imread"
  /\ LET shot == tmpdirs[tmpdir]
         c == Crop(shot.img, call.padding)
     IN IF ~shot.present
        THEN Fail("FileNotFoundError") /\ UNCHANGED <<imgs, k>>
        ELSE IF c.status # "ok"
        THEN Fail(c.status) /\ UNCHANGED <<imgs, k>>
        ELSE /\ imgs' = Append(imgs, [array |-> c.array, by |-> shot.by])
             /\ k' = k + 1
             /\ pc' = IF k < 2 THEN "mrview" ELSE "compose"
             /\ error' = error
  /\ UNCHANGED <<hvars, call, subject_ids, visit_ids, save_path, env, si, vi,
                 fig, row, array, vox, cropped, padded_size, vmax, tmpdir,
                 tmpdirs, rc, cwds, files, shown>>

\* padded_size = max(chain(*(a.shape for a in imgs)))
TracksPaddedSize(images) ==
  SetMax(UNION {{images[n].array.shape[d] : d \in 1..Ndim(images[n].array)} :
                  n \in 1..Len(images)})

\* Lines 129-136: pad every capture to the shared square and draw it in
\* column i.
Compose ==
  /\ pc = "compose"
  /\ padded_size' = TracksPaddedSize(imgs)
  /\ LET padded(n) == PadToSize(imgs[n].array, <<padded_size', padded_size'>>)
         bad == {n \in 1..Len(imgs) : padded(n).status # "ok"}
         upto == IF bad = {} THEN Len(imgs) ELSE SetMin(bad) - 1
     IN /\ fig' = [fig EXCEPT !.axes =
                     [n \in 1..upto |->
                        Axes(n - 1, TRUE, padded(n).array, <<1, 1>>, NoneNum,
                             NoneNum, imgs[n].by[3], imgs[n].array.shape)]]
        /\ IF bad = {} THEN pc' = "tracks_output" /\ error' = error
           ELSE Fail(padded(SetMin(bad)).status)
  /\ UNCHANGED <<hvars, call, subject_ids, visit_ids, save_path, env, si, vi,
                 row, k, array, vox, cropped, vmax, imgs, tmpdir, tmpdirs, rc, cwds,
                 files, shown>>

\* Lines 138-148: show or save the tractography figure.
TracksOutput ==
  /\ pc = "tracks_output"
  /\ SaveOrShow
  /\ NextSession
  /\ UNCHANGED <<hvars, call, subject_ids, visit_ids, save_path, env, fig,
                 row, k, array, vox, cropped, padded_size, vmax, imgs, tmpdir,
                 tmpdirs, rc, cwds, error>>

(***************************************************************************)
(* Specifications                                                          *)
(***************************************************************************)
Next ==
  \/ BeginSession \/ FetchRow \/ CropRow \/ PlotSlice \/ Output
  \/ TracksBegin \/ Mrview \/ Imread \/ Compose \/ TracksOutput

\* The inputs of a batch.
MaxSubjects == 2
MaxVisits == 2
MaxPathLen == 3
Digits == <<"1", "2", "3", "4", "5", "6", "7", "8", "9">>
SubjectIds(n) == [i \in 1..n |-> <<"S", Digits[i]>>]
VisitIds(n) == [i \in 1..n |-> <<"V", Digits[i]>>]
PathChars == {"f", ".", "/"}
SavePaths == UNION {[1..n -> PathChars] : n \in 1..MaxPathLen}

\* figure10 with no options, with padding 0 for its first row, with an
\* explicit vmax of 0.5 for its first row and the median for its second.
RowOptions ==
  [x \in {"swi", "qsm"} |->
     IF x = "swi" THEN [vmax |-> Num(50)] ELSE [vmax_percentile |-> 50]]
PanelCalls ==
  {Figure10(EmptyDict), Figure10([x \in {"swi"} |-> [padding |-> 0]]),
   Figure10(RowOptions), Figure11}
    \cup {Figure12(b, m) : b \in 0..MaxBorder, m \in BOOLEAN}

InitRun ==
  /\ pc = "session" /\ si = 1 /\ vi = 1 /\ fig = NoFigure /\ row = 0 /\ k = 0
  /\ array = NoArray /\ vox = <<>> /\ cropped = NoArray /\ padded_size = 0
  /\ vmax = NoneNum /\ imgs = <<>> /\ tmpdir = 0 /\ tmpdirs = <<>> /\ rc = <<>>
  /\ cwds = <<>>
  /\ files = EmptyDict /\ shown = <<>> /\ error = "none"

\* A batch over subjects and visits with every save path.
Init ==
  /\ HIdle /\ InitRun
  /\ call \in {Figure11, Figure12(DefaultPadding, FALSE), Figure12(DefaultPadding, TRUE)}
  /\ \E n \in 1..MaxSubjects : subject_ids = SubjectIds(n)
  /\ \E n \in 1..MaxVisits : visit_ids = VisitIds(n)
  /\ save_path \in {NoPath} \cup {SomePath(str) : str \in SavePaths}
  /\ env = "batch"

\* One session with every kind of volume and every outcome of the viewer.
InitPanel ==
  /\ HIdle /\ InitRun
  /\ call \in PanelCalls
  /\ subject_ids = SubjectIds(1) /\ visit_ids = VisitIds(1)
  /\ save_path \in {NoPath, SomePath(<<"f", ".", "f">>)}
  /\ env = "panel"

Spec == Init /\ [][Next]_vars
SpecPanel == InitPanel /\ [][Next]_vars
\* _crop alone, on every volume and border.
InitCrop == CropInputs /\ BIdle
NextCrop == CropCall /\ UNCHANGED bvars
SpecCrop == InitCrop /\ [][NextCrop]_vars
\* _pad_to_size alone, on every 2-D array and target size.
InitPad == PadInputs /\ BIdle
NextPad == (PadCall \/ PadAgain) /\ UNCHANGED bvars
SpecPad == InitPad /\ [][NextPad]_vars

(***************************************************************************)
(* Claims about _crop (checked under SpecCrop)                             *)
(***************************************************************************)
\* Smallest and largest nonzero index of an array on axis i.
NzLo(a, i) == SetMin({t[i] : t \in Argwhere(a)})
NzHi(a, i) == SetMax({t[i] : t \in Argwhere(a)})
\* The inclusive index range [max(lo - b, 0), min(hi + b, n - 1)] on every
\* axis, written as Python slices (the stop is one past the last index).
ExpandedBox(a, b) ==
  [i \in 1..Ndim(a) |->
     [start |-> Max(NzLo(a, i) - b, 0),
      stop |-> Min(NzHi(a, i) + b, a.shape[i] - 1) + 1]]
CropDone == h_pc = "done" /\ h_ret.status # "none" /\ h_ret2.status = "none"
                /\ Ndim(h_array) = 3 /\ h_arg \in Nat

\* C1: crop(array, border=0) of an array with a nonzero element returns the
\* minimal box: on each axis exactly the indices from the smallest to the
\* largest nonzero index, both inclusive.
C1_CropMinimalBox ==
  (CropDone /\ h_arg = 0 /\ Argwhere(h_array) # {})
    => /\ h_ret.status = "ok"
       /\ h_ret.array = Take(h_array, ExpandedBox(h_array, 0))
       /\ Cardinality(Argwhere(h_ret.array)) = Cardinality(Argwhere(h_array))

\* C2: crop(array, b) spans on each axis the inclusive index range
\* [max(lo - b, 0), min(hi + b, n - 1)]: the minimal box expanded by b on
\* both sides and clipped to the array.
C2_CropExpandedBox ==
  (CropDone /\ Argwhere(h_array) # {})
    => /\ h_ret.status = "ok"
       /\ \A i \in 1..3 :
            h_ret.array.shape[i] =
              Min(NzHi(h_array, i) + h_arg, h_array.shape[i] - 1)
                - Max(NzLo(h_array, i) - h_arg, 0) + 1
       /\ h_ret.array = Take(h_array, ExpandedBox(h_array, h_arg))

\* C3 as stated: crop of an array with no nonzero element fails with the
\* dedicated EmptyVolumeError.
C3_EmptyVolumeError ==
  (CropDone /\ Argwhere(h_array) = {}) => h_ret.status = "EmptyVolumeError"

\* C3 as amended: crop of an array with no nonzero element raises numpy's
\* ValueError; it never returns normally, so it returns no array and in
\* particular none with a zero-length axis.
C3_EmptyCropRaisesValueError ==
  (CropDone /\ Argwhere(h_array) = {})
    => /\ h_ret.status = "ValueError"
       /\ h_ret.array = NoArray

C3_Witness ==
  CropDone /\ Argwhere(h_array) = {} /\ h_ret.status = "ValueError"
    /\ h_array.shape = <<2, 3, 1>>

(***************************************************************************)
(* Claims about _pad_to_size (checked under SpecPad)                       *)
(***************************************************************************)
PadReturned == h_pc \in {"pad_again", "done"} /\ Ndim(h_array) = 2 /\ Len(h_arg) = 2
TargetFits == \A i \in 1..2 : h_arg[i] >= h_array.shape[i]
\* floor((target - current) / 2) on axis i.
CentredBefore(i) == FloorDiv(h_arg[i] - h_array.shape[i], 2)

\* C4: for a target at least the array's shape on both axes, pad_to_size
\* returns an array of exactly the target shape whose added cells are zero
\* and whose content starts at pad_before = floor((target - current)/2),
\* leaving pad_after = target - current - pad_before cells after it.
C4_PadShapeAndCentring ==
  (PadReturned /\ TargetFits)
    => /\ h_ret.status = "ok"
       /\ h_ret.array.shape = h_arg
       /\ \A t \in Idx(h_arg) :
            LET in == \A i \in 1..2 :
                         /\ CentredBefore(i) <= t[i]
                         /\ t[i] < h_arg[i] - (h_arg[i] - h_array.shape[i]
                                                 - CentredBefore(i))
            IN h_ret.array.data[t] =
                 IF in THEN h_array.data[[i \in 1..2 |-> t[i] - CentredBefore(i)]]
                 ELSE 0

C4_Witness ==
  /\ PadReturned /\ TargetFits /\ h_ret.status = "ok"
  /\ h_arg[1] - h_array.shape[1] = 1 /\ h_arg[2] - h_array.shape[2] = 2
  /\ Argwhere(h_array) # {}

\* C5 as stated: pad_to_size fails with PaddingSizeError when the target is
\* smaller than the array on at least one axis.
C5_PaddingSizeError ==
  (PadReturned /\ ~TargetFits) => h_ret.status = "PaddingSizeError"

\* C5 as amended: when the target is smaller than the array on at least one
\* axis pad_to_size raises numpy's ValueError and returns no array, neither
\* truncated nor resized.
C5_SmallTargetRaisesValueError ==
  (PadReturned /\ ~TargetFits)
    => /\ h_ret.status = "ValueError"
       /\ h_ret.array = NoArray
       /\ h_pc = "done"

C5_Witness ==
  /\ PadReturned /\ h_ret.status = "ValueError"
  /\ h_arg[1] < h_array.shape[1] /\ h_arg[2] > h_array.shape[2]

\* C6: pad_to_size is idempotent: padding the padded array to the same
\* target again returns it element for element.
C6_PadIdempotent ==
  (h_pc = "done" /\ Len(h_arg) = 2 /\ TargetFits)
    => /\ h_ret.status = "ok"
       /\ h_ret2.status = "ok"
       /\ h_ret2.array = h_ret.array

C6_Witness ==
  /\ h_pc = "done" /\ h_ret2.status = "ok" /\ h_ret2.array = h_ret.array
  /\ h_arg[1] = h_arg[2] /\ h_arg[1] >= h_array.shape[1] + 2
  /\ Argwhere(h_array) # {}

\* C7: slicing pad_to_size(x, S) at rows [pad_before_h, pad_before_h + h)
\* and columns [pad_before_w, pad_before_w + w) returns x exactly.
C7_PadSliceBack ==
  (PadReturned /\ TargetFits)
    => /\ h_ret.status = "ok"
       /\ Take(h_ret.array,
               [i \in 1..2 |-> [start |-> CentredBefore(i),
                                stop |-> CentredBefore(i) + h_array.shape[i]]])
            = h_array

C7_Witness ==
  /\ PadReturned /\ TargetFits /\ h_ret.status = "ok"
  /\ h_arg[1] >= h_array.shape[1] + 2 /\ h_arg[2] > h_array.shape[2]
  /\ Cardinality(Argwhere(h_array)) = 2

(***************************************************************************)
(* Claims about the slice panel (checked under SpecPanel and Spec)         *)
(***************************************************************************)
SlicePanel == call.fn \in {"figure10", "figure11"}
LastAxes(f) == f.axes[Len(f.axes)]

\* C8: the aspect ratio given to each of the three mid-plane slices is the
\* ratio of the voxel sizes of the two axes that span its plane, the two that
\* are not fixed at the mid index: s0/s1, s0/s2 and s1/s2.
C8_AspectOfSpanningAxes ==
  [][(SlicePanel /\ Len(fig'.axes) = Len(fig.axes) + 1)
       => LET c == LastAxes(fig')
              p == CHOOSE a \in 1..3 : a # c.fixed /\ \A b \in 1..3 \ {c.fixed} : a <= b
              q == CHOOSE a \in 1..3 : a # c.fixed /\ \A b \in 1..3 \ {c.fixed} : a >= b
          IN c.aspect[1] * vox[q] = c.aspect[2] * vox[p]]_vars

\* Voxel sizes (1, 1, 2): the plane spanning axes 0 and 2 is drawn at 1/2.
C8_Witness ==
  /\ SlicePanel /\ pc = "slice" /\ k = 2 /\ vox = <<1, 1, 2>>
  /\ LastAxes(fig).fixed = 2 /\ LastAxes(fig).drawn
  /\ LastAxes(fig).aspect = <<1, 2>>

\* The path the naming rule gives a session: base, the subject suffix when
\* the batch has more than one subject, the visit suffix when it has more
\* than one visit, then ext.
NamedPath(subj_id, visit_id) ==
  LET sp == Splitext(save_path.str)
  IN sp.base
       \o (IF Len(subject_ids) > 1 THEN <<"-", "s", "u", "b">> \o subj_id ELSE <<>>)
       \o (IF Len(visit_ids) > 1 THEN <<"-", "v", "i", "s">> \o visit_id ELSE <<>>)
       \o sp.ext
\* The sessions whose figure has been put out: those before (si, vi).
Finished(s, v) ==
  /\ s \in 1..Len(subject_ids) /\ v \in 1..Len(visit_ids)
  /\ pc # "idle"
  /\ \/ pc = "done"
     \/ s < si
     \/ s = si /\ v < vi

\* C9: every file written for a session is at base + '-sub<subject>' (more
\* than one subject) + '-vis<visit>' (more than one visit) + ext, the subject
\* suffix first; a single-subject single-visit batch writes the save path
\* itself; slice panels and the tractography figure alike.
C9_SessionFileName ==
  /\ \A p \in DOMAIN files : p = NamedPath(files[p].subject, files[p].visit)
  /\ \A s \in 1..Len(subject_ids), v \in 1..Len(visit_ids) :
       (Finished(s, v) /\ ~save_path.none)
         => /\ NamedPath(subject_ids[s], visit_ids[v]) \in DOMAIN files
            /\ files[NamedPath(subject_ids[s], visit_ids[v])].subject = subject_ids[s]
            /\ files[NamedPath(subject_ids[s], visit_ids[v])].visit = visit_ids[v]
  /\ (Len(subject_ids) = 1 /\ Len(visit_ids) = 1)
       => DOMAIN files \subseteq {save_path.str}

\* Two subjects, one visit, save path f.f: subject S2 is written to f-subS2.f.
C9_Witness ==
  /\ pc = "done" /\ call.fn = "figure12"
  /\ Len(subject_ids) = 2 /\ Len(visit_ids) = 1
  /\ save_path = SomePath(<<"f", ".", "f">>)
  /\ <<"f", "-", "s", "u", "b", "S", "2", ".", "f">> \in DOMAIN files
  /\ files[<<"f", "-", "s", "u", "b", "S", "2", ".", "f">>].subject = <<"S", "2">>

\* C10: when every volume of the panel has a nonzero element the figure is
\* assembled: row i fills the cells 3i, 3i+1, 3i+2 once each, in a grid of
\* len(rows) x 3, every cell is a 2-D square array of the size of the other
\* cells of its row, and no cell fails in padding.  Stated for the rows of
\* figure10 and figure11 with the default options (padding 1).
C10_PanelGridOfSquares ==
  (SlicePanel /\ call \in {Figure10(EmptyDict), Figure11}) =>
    /\ \A n \in 1..Len(fig.axes) :
         LET c == fig.axes[n]
             first == fig.axes[3 * ((n - 1) \div 3) + 1]
         IN /\ c.index = n - 1
            /\ c.drawn
            /\ Ndim(c.image) = 2
            /\ c.image.shape[1] = c.image.shape[2]
            /\ c.image.shape = first.image.shape
    /\ pc = "failed" => error = "ValueError" /\ Argwhere(array) = {}
    /\ (pc = "row" /\ row = Len(call.data_names))
         => Len(fig.axes) = 3 * Len(call.data_names) /\ fig.n_cols = 3

\* The keyword arguments _plot_mid_slices gets for row r (0-based).
RowArgs(r) == Lookup(call.plot_args, call.data_names[r + 1])
\* The three cells of row r, once all three have been drawn.
RowCells(r) == {fig.axes[3 * r + j] : j \in 1..3}
RowDrawn(r) ==
  /\ r \in 0..(Len(call.data_names) - 1)
  /\ Len(fig.axes) >= 3 * r + 3
  /\ \A c \in RowCells(r) : c.drawn
\* The largest dimension of the arrays handed to _pad_to_size in row r.
MaxRawDim(r) ==
  SetMax(UNION {{c.raw[d] : d \in 1..Len(c.raw)} : c \in RowCells(r)})

\* C11: the square canvas of a row has side max(dimensions of the row's
\* three raw, unpadded slices) + 2 x padding, computed from that row alone.
C11_CanvasOfRawSlices ==
  SlicePanel =>
    \A r \in 0..(Len(call.data_names) - 1) :
      RowDrawn(r) =>
        LET side == MaxRawDim(r) + 2 * Opt(RowArgs(r), "padding", DefaultPadding)
        IN \A c \in RowCells(r) : c.image.shape = <<side, side>>

\* The volume of the current row as _crop returns it, from the fetched array.
CroppedVolume == Crop(array, Opt(RowArgs(row), "padding", DefaultPadding)).array
\* The upper bound the claim gives the current row's window.
WindowTop ==
  IF "vmax" \in DOMAIN RowArgs(row) THEN RowArgs(row).vmax
  ELSE Num(Percentile(CroppedVolume,
                      Opt(RowArgs(row), "vmax_percentile", DefaultVmaxPercentile)))

\* C12: the cells of a row share one intensity window: its lower bound is 0,
\* its upper bound the row's explicit vmax when given and otherwise the
\* vmax_percentile (default 98) percentile of the cropped volume.
C12_SharedWindow ==
  SlicePanel =>
    /\ \A n \in 1..Len(fig.axes) :
         fig.axes[n].drawn
           => /\ fig.axes[n].vmin = Num(0)
              /\ fig.axes[n].vmax = fig.axes[3 * ((n - 1) \div 3) + 1].vmax
    /\ pc = "slice" => \A j \in 1..k : fig.axes[3 * row + j].vmax = WindowTop

\* A row whose cropped volume has the 98th percentile 1.0 while the volume
\* as fetched has 0.82, with two cells drawn.
C12_Witness ==
  /\ SlicePanel /\ pc = "slice" /\ k = 2
  /\ "vmax" \notin DOMAIN RowArgs(row)
  /\ cropped.shape # array.shape
  /\ Percentile(array, DefaultVmaxPercentile) = 82
  /\ fig.axes[3 * row + 1].drawn /\ fig.axes[3 * row + 2].drawn
  /\ fig.axes[3 * row + 2].vmax = Num(100) /\ fig.axes[3 * row + 2].vmin = Num(0)

(***************************************************************************)
(* Claims about the layout and the output (SpecPanel and Spec)             *)
(***************************************************************************)
\* The 0-based plane a cell shows: the volume axis fixed at its mid index in
\* a slice panel, the -plane argument (2 - i of the run that wrote the
\* screenshot) in the tractography figure.
PlaneOf(c) == IF SlicePanel THEN c.fixed - 1 ELSE 2 - c.fixed

\* C13: in every row, column 0 shows plane 2 (axial, axis 2 fixed), column 1
\* plane 1 (coronal), column 2 plane 0 (sagittal); in the tractography
\* figure column i shows the capture of viewer plane 2 - i.
C13_ColumnOrder ==
  \A n \in 1..Len(fig.axes) :
    /\ fig.axes[n].index = n - 1
    /\ PlaneOf(fig.axes[n]) = 2 - ((n - 1) % 3)

\* The sessions whose figure has been put out, as (subject, visit) positions.
FinishedSessions ==
  {sv \in (1..Len(subject_ids)) \X (1..Len(visit_ids)) : Finished(sv[1], sv[2])}
ShownTimes(s, v) ==
  Cardinality({n \in 1..Len(shown) : shown[n] = <<subject_ids[s], visit_ids[v]>>})
FilesOf(s, v) ==
  {p \in DOMAIN files :
     files[p].subject = subject_ids[s] /\ files[p].visit = visit_ids[v]}

\* C14: with save_path None every session's figure is shown and no file is
\* ever written; with a save path exactly one file is written per (subject,
\* visit) session and no figure is shown.
C14_ShowOrSave ==
  /\ save_path.none => files = EmptyDict
  /\ ~save_path.none => shown = <<>>
  /\ \A sv \in FinishedSessions :
       IF save_path.none
       THEN ShownTimes(sv[1], sv[2]) = 1
       ELSE Cardinality(FilesOf(sv[1], sv[2])) = 1
  /\ Len(shown) + Cardinality(DOMAIN files) = Cardinality(FinishedSessions)

\* Two subjects and two visits, no save path: four figures shown, no file.
C14_Witness ==
  /\ pc = "done" /\ save_path.none /\ call.fn = "figure11"
  /\ Len(subject_ids) = 2 /\ Len(visit_ids) = 2
  /\ Len(shown) = 4 /\ files = EmptyDict

(***************************************************************************)
(* Claims about the external viewer (SpecPanel and Spec)                   *)
(***************************************************************************)
\* C15: every run of the viewer has a working directory of its own: no two
\* runs, the three of one figure included, have the same one, and the
\* directory of a run that is about to start holds no screenshot of another.
C15_OwnWorkingDirectory ==
  /\ \A i \in 1..Len(cwds), j \in 1..Len(cwds) : i # j => cwds[i] # cwds[j]
  /\ pc = "mrview" => ~tmpdirs[tmpdir].present

\* The temporary directories on disk: every one mkdtemp created, since
\* nothing in the module removes a directory or a file.
ExistingTmpdirs == 1..Len(tmpdirs)

\* C16: the temporary directory of a viewer run is removed by the time the
\* session's figure generation ends, whether it succeeded or failed: between
\* sessions, and after the method has returned or raised, none exists.
C16_TmpdirsReleased ==
  (call.fn = "figure12"
     /\ (pc \in {"done", "failed"} \/ (pc = "session" /\ <<si, vi>> # <<1, 1>>)))
    => ExistingTmpdirs = {}

\* C17: when one of the three viewer runs of a figure exits with a nonzero
\* status the figure fails with ExternalToolError: the screenshot of that run
\* is not read, nothing is composited, shown or saved for the session, and
\* the run is not repeated.
C17_NonzeroExitFails ==
  (call.fn = "figure12" /\ \E n \in 1..Len(rc) : rc[n] # 0)
    => /\ pc = "failed" /\ error = "ExternalToolError"
       /\ Len(imgs) < Len(rc) /\ Len(rc) <= 3
       /\ fig.axes = <<>>
       /\ FilesOf(si, vi) = {} /\ ShownTimes(si, vi) = 0

(***************************************************************************)
(* Claims about failures (Spec and SpecPanel)                              *)
(***************************************************************************)
\* C18: when the figure of a session fails (the method raises while it is
\* producing it), the failed attempt has written no file for that session,
\* and the files saved earlier in the batch are what they were.
C18_FailedSessionLeavesNoFile ==
  [][pc' = "failed" => (files' = files /\ FilesOf(si, vi) = {})]_vars

\* Two subjects, a save path: the first figure is saved, the second fails
\* in _crop and leaves no file.
C18_Witness ==
  /\ pc = "failed" /\ error = "ValueError" /\ call.fn = "figure11"
  /\ Len(subject_ids) = 2 /\ Len(visit_ids) = 1 /\ si = 2
  /\ save_path = SomePath(<<"f", ".", "f">>)
  /\ DOMAIN files = {<<"f", "-", "s", "u", "b", "S", "1", ".", "f">>}
  /\ FilesOf(2, 1) = {}

\* The current session is not the last of the subject x visit iteration.
SessionsRemain == si < Len(subject_ids) \/ vi < Len(visit_ids)

\* C19: a failure while producing one session's figure ends only that
\* figure: when sessions remain after it the batch is not over, the
\* iteration can go on to the next (subject, visit).
C19_FailureEndsOnlyItsFigure ==
  (pc = "failed" /\ SessionsRemain) => ENABLED Next

(***************************************************************************)
(* Claims about the volume (SpecPanel)                                     *)
(***************************************************************************)
\* C20: the array the data layer returned is only read: no step taken after
\* it was fetched changes any of its elements, whatever it contains, NaN
\* included.
C20_VolumeOnlyRead ==
  [][pc # "row" => array' = array]_vars

(***************************************************************************)
(* Claims about the order of the stages (Spec and SpecPanel)               *)
(***************************************************************************)
\* The stage a figure is in, as its rank in REQUESTED (0), VOLUME_FETCHED
\* (1), CROPPED (2), SLICED/CAPTURED (3), PADDED (4), COMPOSITED (5), from
\* the position p in the method, the row r and the cell or capture j.  In
\* the tractography figure a capture is cropped after it was taken, so
\* CAPTURED ranks 2 and CROPPED 3 there.
StageRank(p, r, j) ==
  IF call.fn = "figure12"
  THEN IF p = "session" THEN 0
       ELSE IF p = "mrview" THEN (IF j = 0 THEN 0 ELSE 3)
       ELSE IF p = "imread" THEN 2
       ELSE IF p = "compose" THEN 3
       ELSE 5
  ELSE IF p = "session" THEN 0
       ELSE IF p = "row" THEN (IF r = 0 THEN 0 ELSE 5)
       ELSE IF p = "mid_slices" THEN 1
       ELSE IF p = "slice" THEN (IF j = 0 THEN 2 ELSE 5)
       ELSE 5
\* A step that stays inside the figure of one session and does not fail.
WithinFigure ==
  /\ pc \notin {"idle", "done", "failed"} /\ pc' \notin {"done", "failed"}
  /\ si' = si /\ vi' = vi

\* C21: a figure goes through its stages in the order REQUESTED,
\* VOLUME_FETCHED, CROPPED, SLICED/CAPTURED, PADDED, COMPOSITED, OUTPUT and
\* never enters a stage again after a later one, with several rows or three
\* captures too; it is put out only after every cell is composited.
C21_StagesLinear ==
  [][/\ WithinFigure => StageRank(pc', row', k') >= StageRank(pc, row, k)
     /\ (files' # files \/ shown' # shown)
          => /\ Len(fig.axes) = 3 * fig.n_rows
             /\ \A n \in 1..Len(fig.axes) : fig.axes[n].drawn]_vars

\* The stage of the row, or of the capture, that is being worked on: a row
\* is requested at "row", fetched at "mid_slices", cropped at "slice" and has
\* a cell composited once j > 0; a capture is requested at "mrview" and
\* taken at "imread"; at "compose" all captures are cropped.
UnitRank(p, j) ==
  IF p \in {"session", "row", "mrview"} THEN 0
  ELSE IF p = "mid_slices" THEN 1
  ELSE IF p = "imread" THEN 2
  ELSE IF p = "slice" THEN (IF j = 0 THEN 2 ELSE 5)
  ELSE IF p = "compose" THEN 3
  ELSE 5
\* A step that stays with one row of a slice panel or one capture.
WithinUnit ==
  /\ WithinFigure
  /\ IF call.fn = "figure12" THEN k' = k \/ pc = "compose" ELSE row' = row

\* C21 as amended: each row, and each capture, goes through its stages in
\* order and never back; rows and captures follow one another; the figure
\* is put out only after every cell of every row is composited.
C21_StagesLinearPerRow ==
  [][/\ WithinUnit => UnitRank(pc', k') >= UnitRank(pc, k)
     /\ (files' # files \/ shown' # shown)
          => /\ Len(fig.axes) = 3 * fig.n_rows
             /\ \A n \in 1..Len(fig.axes) : fig.axes[n].drawn]_vars

\* A figure of two rows, saved with its six cells.
C21_Witness ==
  /\ call = Figure11 /\ pc = "done" /\ ~save_path.none
  /\ \E p \in DOMAIN files :
       /\ Len(files[p].figure.axes) = 6
       /\ \A n \in 1..6 : files[p].figure.axes[n].drawn

(***************************************************************************)
(* Claims about the slices and the row options (SpecPanel)                 *)
(***************************************************************************)
\* C22: each of the three slices of a row is the complete plane of the
\* cropped volume at index floor(dim/2) of its fixed axis: its two
\* dimensions are the extents of the cropped volume on the two in-plane
\* axes (transposed), no row or column of the plane left out.
C22_CompleteMidPlanes ==
  (SlicePanel /\ pc = "slice") =>
    \A j \in 1..k :
      LET c == fig.axes[3 * row + j]
          p == InPlane(c.fixed)[1]
          q == InPlane(c.fixed)[2]
      IN /\ c.fixed = FixedAxis(j - 1)
         /\ c.raw = <<cropped.shape[q], cropped.shape[p]>>

\* C23: the options given in plot_args reach the row they are meant for and
\* the other rows get the defaults: in figure11 the cells of the FA row
\* (row 0) have the upper bound vmax = 1.0 and those of the ADC row (row 1)
\* the 98th percentile of the cropped volume.
C23_OptionsReachTheirRow ==
  call = Figure11 =>
    /\ \A n \in 1..Len(fig.axes) :
         (fig.axes[n].drawn /\ n <= 3) => fig.axes[n].vmax = Num(100)
    /\ (pc = "slice" /\ row = 1)
         => \A j \in 1..k :
              fig.axes[3 + j].vmax
                = Num(Percentile(CroppedVolume, DefaultVmaxPercentile))

\* C24: in a tractography figure the capture in column i is the screenshot
\* written by the i-th viewer run of that same session's figure (runs and
\* columns counted from 0), never one an earlier run left in the directory,
\* whatever the run's exit status and whether or not it wrote a file.
C24_CaptureOfOwnRun ==
  (call.fn = "figure12" /\ pc \in {"mrview", "imread", "compose"})
    => \A n \in 1..Len(imgs) : imgs[n].by = <<si, vi, n - 1>>

\* C25: within one batch two different (subject, visit) sessions never write
\* the same path: every write creates a path no earlier session wrote, and a
\* file once written stays as it was written until the end of the batch.
C25_SessionFilesKept ==
  [][/\ \A p \in DOMAIN files : p \in DOMAIN files' /\ files'[p] = files[p]
     /\ files' # files
          => /\ Cardinality(DOMAIN files') = Cardinality(DOMAIN files) + 1
             /\ \A p \in DOMAIN files' \ DOMAIN files :
                  /\ files'[p].subject = subject_ids[si]
                  /\ files'[p].visit = visit_ids[vi]]_vars

\* A batch of two subjects and two visits ended with four files, one for
\* each session.
C25_Witness ==
  /\ pc = "done" /\ ~save_path.none
  /\ Len(subject_ids) = 2 /\ Len(visit_ids) = 2
  /\ Cardinality(DOMAIN files) = 4
  /\ \A s \in 1..2, v \in 1..2 :
       \E p \in DOMAIN files :
         files[p].subject = subject_ids[s] /\ files[p].visit = visit_ids[v]
====
